---- MODULE Spec2Model ----
(***************************************************************************)
(* Model of crates/cli/src/filterer/proglib.rs: the jaq native filters of   *)
(* watchexec (log, printout, printerr, kv_clear, kv_store, kv_fetch,        *)
(* file_read, file_meta, file_size, hash, file_hash), the Val <-> SyncVal   *)
(* conversions and the process-wide key-value store behind kv_*.            *)
(*                                                                         *)
(* Three specifications share the module:                                  *)
(*   SpecMirror  the two From conversions applied to bounded values;       *)
(*   Spec        concurrent evaluations calling the kv_* filters;          *)
(*   SpecEval    one evaluation calling any filter through either hook.    *)
(*                                                                         *)
(* Strings (Rust String / Rc<String> / Arc<str>) are sequences of bytes.    *)
(***************************************************************************)
EXTENDS Integers, Sequences, FiniteSets, TLC

VARIABLES
    conv,       \* SpecMirror: the value being converted
    KV_STORE,   \* the OnceCell of kv_store(): 0 while empty, else the id of its map
    maps,       \* every DashMap instance created so far, by id
    th,         \* each evaluation thread's position in the filter it runs
    lastStored, \* history: per key, the input of the latest completed insert
                \* not yet removed by a clear (NoStore if none)
    written,    \* history: per key, the inputs of all completed inserts
    dirty       \* history: per thread, the keys inserted since it last began
                \* a kv_clear

convVars == <<conv>>
kvVars == <<KV_STORE, maps>>
histVars == <<lastStored, written, dirty>>
vars == <<conv, KV_STORE, maps, th, lastStored, written, dirty>>

(***************************************************************************)
(* Bounds of the model.                                                    *)
(***************************************************************************)
\* longest array / object generated as a conversion input
MaxLen == 2
\* number of lock shards of the DashMap
NumShards == 2
\* longest file content
MaxFileLen == 3
\* bytes of the read buffer of file_hash (1024 * 1024 in the build), scaled so
\* that a bounded file spans several buffers
BUFFER_SIZE == 2
\* bits of isize / usize / u64 (64 in the build), scaled
WordBits == 8

(***************************************************************************)
(* Bytes and strings.                                                      *)
(***************************************************************************)
S_a == <<97>>
S_b == <<98>>
S_c == <<99>>
S_1 == <<49>>
S_1_0 == <<49, 46, 48>>
S_1_00 == <<49, 46, 48, 48>>

(***************************************************************************)
(* jaq_core::Val: the evaluation value, a tagged union.  An object is an    *)
(* IndexMap, modelled as the sequence of its <<key, value>> entries in     *)
(* insertion order with pairwise distinct keys.                            *)
(***************************************************************************)
Null == <<"Null">>
VBool(b) == <<"Bool", b>>
VInt(i) == <<"Int", i>>
VFloat(f) == <<"Float", f>>
VNum(s) == <<"Num", s>>
VStr(s) == <<"Str", s>>
VArr(a) == <<"Arr", a>>
VObj(m) == <<"Obj", m>>

(***************************************************************************)
(* enum SyncVal: the thread-safe mirror.                                   *)
(***************************************************************************)
SNull == <<"SyncVal::Null">>
SBool(b) == <<"SyncVal::Bool", b>>
SInt(i) == <<"SyncVal::Int", i>>
SFloat(f) == <<"SyncVal::Float", f>>
SNum(s) == <<"SyncVal::Num", s>>
SStr(s) == <<"SyncVal::Str", s>>
SArr(a) == <<"SyncVal::Arr", a>>
SObj(m) == <<"SyncVal::Obj", m>>

(***************************************************************************)
(* Helpers of the conversions.                                             *)
(***************************************************************************)
\* a decimal text re-rendered without its trailing fractional zero (a bug)
StrCopyNormalised(s) ==
    IF Len(s) >= 3 /\ s[Len(s)] = 48 THEN SubSeq(s, 1, Len(s) - 1) ELSE s

\* s.to_string().into(): a fresh string holding the same bytes
StrCopy(s) == [i \in 1..Len(s) |-> s[i]]

\* the sequences over S of length at most n
SeqsUpTo(S, n) == UNION {[1..k -> S] : k \in 0..n}

\* Vec::push
VecPush(vec, v) == Append(vec, v)

KeyIndex(map, k) ==
    IF \E i \in 1..Len(map) : map[i][1] = k
    THEN CHOOSE i \in 1..Len(map) : map[i][1] = k
    ELSE 0

\* IndexMap::insert: a new key is appended, an existing key keeps its place
IndexMapInsert(map, k, v) ==
    IF KeyIndex(map, k) = 0
    THEN Append(map, <<k, v>>)
    ELSE [map EXCEPT ![KeyIndex(map, k)] = <<k, v>>]

RECURSIVE SyncValFrom(_)
RECURSIVE SyncArrLoop(_, _, _)
RECURSIVE SyncObjLoop(_, _, _)

\* for v in a.iter() { arr.push(v.into()) }
SyncArrLoop(a, i, arr) ==
    IF i > Len(a) THEN arr
    ELSE SyncArrLoop(a, i + 1, VecPush(arr, SyncValFrom(a[i])))

\* for (k, v) in m.iter() { map.insert(k.to_string().into(), v.into()) }
SyncObjLoop(m, i, map) ==
    IF i > Len(m) THEN map
    ELSE SyncObjLoop(m, i + 1,
                     IndexMapInsert(map, StrCopy(m[i][1]), SyncValFrom(m[i][2])))

\* impl From<&Val> for SyncVal
SyncValFrom(val) ==
    CASE val[1] = "Null" -> SNull
      [] val[1] = "Bool" -> SBool(val[2])
      [] val[1] = "Int" -> SInt(val[2])
      [] val[1] = "Float" -> SFloat(val[2])
      [] val[1] = "Num" -> SNum(StrCopy(val[2]))
      [] val[1] = "Str" -> SStr(StrCopy(val[2]))
      [] val[1] = "Arr" -> SArr(SyncArrLoop(val[2], 1, <<>>))
      [] val[1] = "Obj" -> SObj(SyncObjLoop(val[2], 1, <<>>))

RECURSIVE ValFrom(_)
RECURSIVE ValArrLoop(_, _, _)
RECURSIVE ValObjLoop(_, _, _)

ValArrLoop(a, i, arr) ==
    IF i > Len(a) THEN arr
    ELSE ValArrLoop(a, i + 1, VecPush(arr, ValFrom(a[i])))

ValObjLoop(m, i, map) ==
    IF i > Len(m) THEN map
    ELSE ValObjLoop(m, i + 1,
                    IndexMapInsert(map, StrCopy(m[i][1]), ValFrom(m[i][2])))

\* impl From<&SyncVal> for Val
ValFrom(val) ==
    CASE val[1] = "SyncVal::Null" -> Null
      [] val[1] = "SyncVal::Bool" -> VBool(val[2])
      [] val[1] = "SyncVal::Int" -> VInt(val[2])
      [] val[1] = "SyncVal::Float" -> VFloat(val[2])
      [] val[1] = "SyncVal::Num" -> VNum(StrCopy(val[2]))
      [] val[1] = "SyncVal::Str" -> VStr(StrCopy(val[2]))
      [] val[1] = "SyncVal::Arr" -> VArr(ValArrLoop(val[2], 1, <<>>))
      [] val[1] = "SyncVal::Obj" -> VObj(ValObjLoop(val[2], 1, <<>>))

(***************************************************************************)
(* Results and errors of a filter: a stream is a sequence of results.      *)
(***************************************************************************)
Ok(v) == <<"Ok", v>>
Err(e) == <<"Err", e>>
IsOk(r) == r[1] = "Ok"

\* Err(Error::Custom(err.into()))
custom_err(msg) == Err(<<"Error::Custom", msg>>)

\* an error raised by an argument's own sub-expression
UpstreamErr == Err(<<"Error::Upstream">>)

\* once(r)
once(r) == <<r>>

\* a coercion that replaces the argument's own error by its own (a bug)
string_arg_masks_error(args, n, val) ==
    IF args[n] = <<>> \/ ~IsOk(Head(args[n]))
    THEN custom_err(<<"value expected but none found">>)
    ELSE IF Head(args[n])[2][1] = "Str"
         THEN Ok(StrCopy(Head(args[n])[2][2]))
         ELSE custom_err(<<"expected string but got ", Head(args[n])[2]>>)

\* string_arg!: the first result of the n-th argument, required to be a string
string_arg(args, n, val) ==
    IF args[n] = <<>> THEN custom_err(<<"value expected but none found">>)
    ELSE LET first == Head(args[n]) IN
         IF IsOk(first)
         THEN IF first[2][1] = "Str"
              THEN Ok(StrCopy(first[2][2]))
              ELSE custom_err(<<"expected string but got ", first[2]>>)
         ELSE first

(***************************************************************************)
(* The shared store: OnceCell<Arc<DashMap<String, SyncVal>>>.               *)
(***************************************************************************)
S_k1 == <<107, 49>>
S_k2 == <<107, 50>>
Keys == {S_k1, S_k2}

Threads == {"t1", "t2"}

Absent == <<"None">>

RECURSIVE SumBytes(_)
SumBytes(s) == IF s = <<>> THEN 0 ELSE Head(s) + SumBytes(Tail(s))

\* DashMap::determine_map: the shard that holds a key
ShardOf(k) == SumBytes(k) % NumShards

\* KvStore::default()
EmptyDashMap == [k \in Keys |-> Absent]

\* an insert that keeps an entry already present (a bug)
DashInsertIfAbsent(m, k, v) == IF m[k] = Absent THEN [m EXCEPT ![k] = v] ELSE m

\* an insert that writes the value over every slot (a bug)
DashInsertClobber(m, k, v) == [j \in Keys |-> v]

\* DashMap::insert, under the write lock of the key's shard
DashInsert(m, k, v) == [m EXCEPT ![k] = v]

\* DashMap::get, under the read lock of the key's shard
DashGet(m, k) == m[k]

\* a clear that leaves the last shard alone (a bug)
DashClearShardButLast(m, s) ==
    [k \in Keys |-> IF ShardOf(k) = s /\ s + 1 < NumShards THEN Absent ELSE m[k]]

\* DashMap::clear visits the shards in turn, write-locking and emptying each
DashClearShard(m, s) == [k \in Keys |-> IF ShardOf(k) = s THEN Absent ELSE m[k]]

\* .map(|val| val.value().into()).unwrap_or(Val::Null)
FetchValue(entry) == IF entry = Absent THEN Null ELSE ValFrom(entry)

NoStore == <<"NoStore">>

KvInit ==
    /\ KV_STORE = 0
    /\ maps = <<>>
    /\ lastStored = [k \in Keys |-> NoStore]
    /\ written = [k \in Keys |-> {}]
    /\ dirty = [t \in Threads |-> {}]

(***************************************************************************)
(* The closures registered by load_watchexec_defs.  A closure's outcome is *)
(* its result stream and the side effects it performed, in order.          *)
(***************************************************************************)
S_trace == <<116, 114, 97, 99, 101>>
S_debug == <<100, 101, 98, 117, 103>>
S_info == <<105, 110, 102, 111>>
S_warn == <<119, 97, 114, 110>>
S_error == <<101, 114, 114, 111, 114>>
S_Warn == <<87, 97, 114, 110>>
S_bogus == <<98, 111, 103, 117, 115>>
S_path == <<47, 102>>

Outcome(out, eff) == [out |-> out, eff |-> eff]

\* a pass-through that emits Null in place of its input (a bug)
passthrough_null(val) == once(Ok(Null))

\* Box::new(once(Ok(val)))
passthrough(val) == once(Ok(val))

\* str::to_ascii_lowercase
to_ascii_lowercase(s) ==
    [i \in 1..Len(s) |-> IF s[i] \in 65..90 THEN s[i] + 32 ELSE s[i]]

LogLevels == {S_trace, S_debug, S_info, S_warn, S_error}

\* log_action!: the tracing event emitted, or the error returned
log_action(level, val) ==
    IF to_ascii_lowercase(level) \in LogLevels
    THEN Ok(<<"tracing", to_ascii_lowercase(level), <<"jaq: ", val>>>>)
    ELSE custom_err(<<"invalid log level">>)

\* log, run hook
log_run(args, val) ==
    LET level == string_arg(args, 1, val) IN
    IF ~IsOk(level) THEN Outcome(once(level), <<>>)
    ELSE IF ~IsOk(log_action(level[2], val))
         THEN Outcome(once(log_action(level[2], val)), <<>>)
         ELSE Outcome(passthrough(val), <<log_action(level[2], val)[2]>>)

\* an update hook that passes the value through without logging it (a bug)
log_update_silent(args, val) ==
    LET level == string_arg(args, 1, val) IN
    IF ~IsOk(level) THEN Outcome(once(level), <<>>)
    ELSE Outcome(passthrough(val), <<>>)

\* log, update hook (the continuation is ignored)
log_update(args, val) ==
    LET level == string_arg(args, 1, val) IN
    IF ~IsOk(level) THEN Outcome(once(level), <<>>)
    ELSE IF ~IsOk(log_action(level[2], val))
         THEN Outcome(once(log_action(level[2], val)), <<>>)
         ELSE Outcome(passthrough(val), <<log_action(level[2], val)[2]>>)

\* printout, run hook: println!("{}", val)
printout_run(args, val) == Outcome(passthrough(val), <<<<"stdout", val>>>>)

\* printout, update hook
printout_update(args, val) == Outcome(passthrough(val), <<<<"stdout", val>>>>)

\* printerr, run hook: eprintln!("{}", val)
printerr_run(args, val) == Outcome(passthrough(val), <<<<"stderr", val>>>>)

\* printerr, update hook
printerr_update(args, val) == Outcome(passthrough(val), <<<<"stderr", val>>>>)

\* blake3: an ideal hash, the hex digest names the bytes absorbed
Blake3Hex(data) == <<0>> \o data

\* hash, run hook
hash_run(args, val) ==
    IF val[1] = "Str"
    THEN Outcome(once(Ok(VStr(Blake3Hex(StrCopy(val[2]))))), <<>>)
    ELSE Outcome(once(custom_err(<<"expected string but got {val:?}">>)), <<>>)

\* the filters registered with Native::with_update(run, update)
WithUpdate == {"log", "printout", "printerr"}

\* the filters that use the shared store
KvFilters == {"kv_clear", "kv_store", "kv_fetch"}

\* the filters registered with Native::new(run)
NativeNew ==
    KvFilters \cup {"file_read", "file_meta", "file_size", "hash", "file_hash"}

\* the update hook Native::new installs: box_once(Err(Error::PathExp))
native_new_update == once(Err(<<"Error::PathExp">>))

(***************************************************************************)
(* The filesystem, as one call sees the path it is given.                  *)
(***************************************************************************)
S_type == <<116, 121, 112, 101>>
S_size == <<115, 105, 122, 101>>
S_modified == <<109, 111, 100, 105, 102, 105, 101, 100>>
S_accessed == <<97, 99, 99, 101, 115, 115, 101, 100>>
S_created == <<99, 114, 101, 97, 116, 101, 100>>
S_dir == <<100, 105, 114>>
S_file == <<102, 105, 108, 101>>
S_symlink == <<115, 121, 109, 108, 105, 110, 107>>
S_readonly == <<114, 101, 97, 100, 111, 110, 108, 121>>
S_mode == <<109, 111, 100, 101>>
S_mode_byte == <<109, 111, 100, 101, 95, 98, 121, 116, 101>>
S_executable == <<101, 120, 101, 99, 117, 116, 97, 98, 108, 101>>
S_char == <<99, 104, 97, 114>>
S_block == <<98, 108, 111, 99, 107>>
S_fifo == <<102, 105, 102, 111>>
S_socket == <<115, 111, 99, 107, 101, 116>>
S_unknown == <<117, 110, 107, 110, 111, 119, 110>>

\* 104 is 'h'; 195 starts a two-byte UTF-8 sequence and is invalid on its own
FileBytes == {104, 195}

FileMeta(ftype, len, mode) ==
    [ftype |-> ftype, len |-> len, mode |-> mode,
     modified |-> <<"Ok", 1700>>, accessed |-> <<"Ok", -5>>, created |-> <<"Err">>]

\* nothing at the path
Missing == [kind |-> "missing", content |-> <<>>, flaky |-> FALSE,
            meta |-> FileMeta("unknown", 0, 0)]

\* a file that may be stat'ed but not opened (mode 0o100000)
Denied == [kind |-> "denied", content |-> <<104>>, flaky |-> FALSE,
           meta |-> FileMeta("file", 1, 32768)]

\* a directory (mode 0o40755): it opens, and every read of it fails
Directory == [kind |-> "dir", content |-> <<>>, flaky |-> TRUE,
              meta |-> FileMeta("dir", 64, 16877)]

\* a regular file (mode 0o100644); a read of a flaky file may fail (EIO, EINTR)
RegularFile(content, flaky) ==
    [kind |-> "file", content |-> content, flaky |-> flaky,
     meta |-> FileMeta("file", Len(content), 33188)]

FsEntries ==
    {Missing, Denied, Directory}
      \cup {RegularFile(c, f) : c \in SeqsUpTo(FileBytes, MaxFileLen), f \in BOOLEAN}

\* std::fs::metadata(&path)
metadata(env) == IF env.kind = "missing" THEN <<"Err">> ELSE <<"Ok", env.meta>>

\* File::open(&path)
File_open(env) == IF env.kind \in {"missing", "denied"} THEN <<"Err">> ELSE <<"Ok">>

\* whether a read of the open file may fail, and whether it may succeed
ReadMayFail(env) == env.flaky
ReadMayWork(env) == env.kind # "dir"

RECURSIVE Utf8Valid(_)
\* one- and two-byte UTF-8 sequences
Utf8Valid(s) ==
    IF s = <<>> THEN TRUE
    ELSE IF s[1] < 128 THEN Utf8Valid(Tail(s))
    ELSE IF s[1] \in 194..223 /\ Len(s) >= 2 /\ s[2] \in 128..191
         THEN Utf8Valid(Tail(Tail(s)))
    ELSE FALSE

Min(a, b) == IF a < b THEN a ELSE b

\* v as u64 / v as usize / v as isize
CastUnsigned(v) == v % (2 ^ WordBits)
IsizeMax == (2 ^ (WordBits - 1)) - 1

\* int_arg!: the first result of the n-th argument, required to be an int
int_arg(args, n, val) ==
    IF args[n] = <<>> THEN custom_err(<<"value expected but none found">>)
    ELSE LET first == Head(args[n]) IN
         IF IsOk(first)
         THEN IF first[2][1] = "Int"
              THEN Ok(CastUnsigned(first[2][2]))
              ELSE custom_err(<<"expected int but got ", first[2]>>)
         ELSE first

\* fs_time: seconds since the epoch, None if unavailable or before the epoch
fs_time(time) ==
    IF time[1] = "Ok" /\ time[2] >= 0 THEN VInt(time[2]) ELSE Null

\* filetype_str (cfg(unix))
filetype_str(ftype) ==
    CASE ftype = "char" -> S_char
      [] ftype = "block" -> S_block
      [] ftype = "fifo" -> S_fifo
      [] ftype = "socket" -> S_socket
      [] ftype = "dir" -> S_dir
      [] ftype = "file" -> S_file
      [] ftype = "symlink" -> S_symlink
      [] OTHER -> S_unknown

Bit(n, i) == (n \div (2 ^ i)) % 2

RECURSIVE Octal(_)
\* format!("{:o}", n)
Octal(n) == IF n < 8 THEN <<48 + n>> ELSE Octal(n \div 8) \o <<48 + (n % 8)>>

\* Permissions::readonly (unix): no write bit is set
readonly(mode) == Bit(mode, 1) = 0 /\ Bit(mode, 4) = 0 /\ Bit(mode, 7) = 0

\* json_meta (cfg(unix)), as the Val built from the JSON object
json_meta(meta) ==
    VObj(<<<<S_type, VStr(filetype_str(meta.ftype))>>,
           <<S_size, VInt(meta.len)>>,
           <<S_modified, fs_time(meta.modified)>>,
           <<S_accessed, fs_time(meta.accessed)>>,
           <<S_created, fs_time(meta.created)>>,
           <<S_dir, VBool(meta.ftype = "dir")>>,
           <<S_file, VBool(meta.ftype = "file")>>,
           <<S_symlink, VBool(meta.ftype = "symlink")>>,
           <<S_readonly, VBool(readonly(meta.mode))>>,
           <<S_mode, VStr(Octal(meta.mode))>>,
           <<S_mode_byte, VInt(meta.mode)>>,
           <<S_executable,
             VBool(Bit(meta.mode, 0) = 1 \/ Bit(meta.mode, 3) = 1 \/ Bit(meta.mode, 6) = 1)>>>>)

PathTypeErr == custom_err(<<"expected string (path) but got {val:?}">>)

ErrorLog(what, path) == <<"tracing", S_error, <<what, path>>>>

\* String::with_capacity beyond isize::MAX bytes panics: the evaluation dies
Panic == <<<<"panic", "capacity overflow">>>>

\* file_read, run hook; readFails: whether the read hits an I/O error
file_read_run(args, val, env, readFails) ==
    IF val[1] # "Str" THEN Outcome(once(PathTypeErr), <<>>)
    ELSE LET path == StrCopy(val[2])
             bytes == int_arg(args, 1, val)
         IN
         IF ~IsOk(bytes) THEN Outcome(once(bytes), <<>>)
         ELSE IF File_open(env)[1] = "Err"
         THEN Outcome(once(Ok(Null)),
                      <<<<"File::open", path>>,
                        ErrorLog("jaq: failed to open file", path)>>)
         ELSE IF bytes[2] > IsizeMax
         THEN Outcome(Panic, <<<<"File::open", path>>>>)
         ELSE LET taken == SubSeq(env.content, 1, Min(bytes[2], Len(env.content))) IN
              IF readFails \/ ~Utf8Valid(taken)
              THEN Outcome(once(Ok(Null)),
                           <<<<"File::open", path>>, <<"read_to_string", "Err">>,
                             ErrorLog("jaq: failed to read from", path)>>)
              ELSE Outcome(once(Ok(VStr(taken))),
                           <<<<"File::open", path>>, <<"read_to_string", "Ok">>>>)

\* file_meta, run hook
file_meta_run(args, val, env) ==
    IF val[1] # "Str" THEN Outcome(once(PathTypeErr), <<>>)
    ELSE LET path == StrCopy(val[2]) IN
         IF metadata(env)[1] = "Ok"
         THEN Outcome(once(Ok(json_meta(metadata(env)[2]))), <<<<"metadata", path>>>>)
         ELSE Outcome(once(Ok(Null)),
                      <<<<"metadata", path>>, ErrorLog("jaq: failed to open", path)>>)

\* file_size, run hook
file_size_run(args, val, env) ==
    IF val[1] # "Str" THEN Outcome(once(PathTypeErr), <<>>)
    ELSE LET path == StrCopy(val[2]) IN
         IF metadata(env)[1] = "Ok"
         THEN Outcome(once(Ok(VInt(metadata(env)[2].len))), <<<<"metadata", path>>>>)
         ELSE Outcome(once(Ok(Null)),
                      <<<<"metadata", path>>, ErrorLog("jaq: failed to open", path)>>)

(***************************************************************************)
(* Evaluation threads.                                                     *)
(***************************************************************************)
\* no conversion is under way
NoConv == [pc |-> "off", v |-> Null, m |-> SNull, back |-> Null]

\* no file is involved in the call
NoFile == [kind |-> "none", content |-> <<>>, flaky |-> FALSE,
           meta |-> FileMeta("unknown", 0, 0)]

Idle(afterClear) ==
    [pc |-> "idle", fn |-> "", hook |-> "run", val |-> Null, args |-> <<>>,
     env |-> NoFile, kv |-> 0, cursor |-> 0, hasher |-> <<>>, out |-> <<>>,
     eff |-> <<>>, afterClear |-> afterClear]

\* the evaluator calls a hook of a native filter: a Native::new filter has no
\* update closure of its own; a kv_* closure starts with kv_store()
Invoke(t, fn, hook, val, args, env) ==
    /\ th[t].pc = "idle"
    /\ th' = [th EXCEPT ![t] =
                 IF hook = "update" /\ fn \in NativeNew
                 THEN [@ EXCEPT !.pc = "done", !.fn = fn, !.hook = hook, !.val = val,
                                !.args = args, !.env = env,
                                !.out = native_new_update]
                 ELSE [@ EXCEPT !.pc = IF fn \in KvFilters THEN "accessor" ELSE "op",
                                !.fn = fn, !.hook = hook, !.val = val,
                                !.args = args, !.env = env]]
    /\ dirty' = [dirty EXCEPT ![t] =
                    IF th[t].afterClear /\ fn = "kv_fetch" /\ hook = "run"
                    THEN @ ELSE {}]
    /\ UNCHANGED <<conv, kvVars, lastStored, written>>

StoreVals == {VInt(7), VArr(<<VStr(S_a), VNum(S_1_0)>>)}

KeyArgs == {<<once(Ok(VStr(k)))>> : k \in Keys}

\* Spec: the run hook of a kv_* filter is called
KvCall(t) ==
    \E fn \in KvFilters :
    \E val \in (IF fn = "kv_store" THEN StoreVals ELSE {Null}) :
    \E args \in (IF fn = "kv_clear" THEN {<<>>} ELSE KeyArgs \cup {<<<<>>>>}) :
        Invoke(t, fn, "run", val, args, NoFile)

\* a thread is inside the closure of get_or_init
Initializing == {t \in Threads : th[t].pc = "init"}

\* an initialization that does not wait for a running initializer (a bug)
MayInitializeRacy(t) == KV_STORE = 0

\* get_or_init on an empty cell whose closure no thread runs: this thread runs it
MayInitialize(t) == KV_STORE = 0 /\ Initializing = {}

\* let kv = kv_store(): the cell is set, the handle is a clone of its Arc
AccessorGet(t) ==
    /\ th[t].pc = "accessor"
    /\ KV_STORE # 0
    /\ th' = [th EXCEPT ![t] = [@ EXCEPT !.pc = "op", !.kv = KV_STORE]]
    /\ UNCHANGED <<conv, kvVars, histVars>>

\* let kv = kv_store(): the cell is empty, this thread becomes the initializer
AccessorInitBegin(t) ==
    /\ th[t].pc = "accessor"
    /\ MayInitialize(t)
    /\ th' = [th EXCEPT ![t] = [@ EXCEPT !.pc = "init"]]
    /\ UNCHANGED <<conv, kvVars, histVars>>

\* the closure || KvStore::default() returns and the cell is set
AccessorInitEnd(t) ==
    /\ th[t].pc = "init"
    /\ maps' = Append(maps, EmptyDashMap)
    /\ KV_STORE' = Len(maps) + 1
    /\ th' = [th EXCEPT ![t] = [@ EXCEPT !.pc = "accessor"]]
    /\ UNCHANGED <<conv, histVars>>

\* thread u is in a kv_clear, or between a kv_clear and the end of the
\* kv_fetch that follows it: the inserts of this window are recorded in dirty
Tracking(u) ==
    \/ th[u].fn = "kv_clear" /\ th[u].hook = "run" /\ th[u].pc # "idle"
    \/ th[u].afterClear /\ (th[u].pc = "idle" \/ th[u].fn = "kv_fetch")

\* kv.clear(), one shard at a time; after the last shard: once(Ok(val))
KvClearStep(t) ==
    /\ th[t].pc = "op" /\ th[t].fn = "kv_clear"
    /\ LET s == th[t].cursor
           last == s + 1 >= NumShards
       IN /\ maps' = [maps EXCEPT ![th[t].kv] = DashClearShard(@, s)]
          /\ lastStored' = [k \in Keys |->
                               IF ShardOf(k) = s THEN NoStore ELSE lastStored[k]]
          /\ th' = [th EXCEPT ![t] =
                       IF last
                       THEN [@ EXCEPT !.pc = "done", !.cursor = 0,
                                      !.out = passthrough(th[t].val)]
                       ELSE [@ EXCEPT !.cursor = s + 1]]
    /\ UNCHANGED <<conv, KV_STORE, written, dirty>>

\* kv_store: string_arg!, kv.insert(key, (&val).into()), once(Ok(val))
KvStoreStep(t) ==
    /\ th[t].pc = "op" /\ th[t].fn = "kv_store"
    /\ LET key == string_arg(th[t].args, 1, th[t].val) IN
       IF IsOk(key)
       THEN /\ maps' = [maps EXCEPT ![th[t].kv] =
                           DashInsert(@, key[2], SyncValFrom(th[t].val))]
            /\ th' = [th EXCEPT ![t] = [@ EXCEPT !.pc = "done",
                                                  !.out = passthrough(th[t].val)]]
            /\ lastStored' = [lastStored EXCEPT ![key[2]] = th[t].val]
            /\ written' = [written EXCEPT ![key[2]] = @ \cup {th[t].val}]
            /\ dirty' = [u \in Threads |->
                            IF Tracking(u) THEN dirty[u] \cup {key[2]} ELSE dirty[u]]
       ELSE /\ th' = [th EXCEPT ![t] = [@ EXCEPT !.pc = "done", !.out = once(key)]]
            /\ UNCHANGED <<maps, histVars>>
    /\ UNCHANGED <<conv, KV_STORE>>

\* kv_fetch: string_arg!, kv.get(&key), once(Ok(value or Null))
KvFetchStep(t) ==
    /\ th[t].pc = "op" /\ th[t].fn = "kv_fetch"
    /\ LET key == string_arg(th[t].args, 1, th[t].val) IN
       th' = [th EXCEPT ![t] =
                 [@ EXCEPT !.pc = "done",
                           !.out = IF IsOk(key)
                                   THEN once(Ok(FetchValue(DashGet(maps[th[t].kv], key[2]))))
                                   ELSE once(key)]]
    /\ UNCHANGED <<conv, kvVars, histVars>>

\* the evaluator consumes the result stream; the handle is dropped
Return(t) ==
    /\ th[t].pc = "done"
    /\ th' = [th EXCEPT ![t] = Idle(th[t].fn = "kv_clear" /\ th[t].hook = "run")]
    /\ dirty' = [dirty EXCEPT ![t] =
                    IF th[t].fn = "kv_clear" /\ th[t].hook = "run" THEN @ ELSE {}]
    /\ UNCHANGED <<conv, kvVars, lastStored, written>>

Init ==
    /\ conv = NoConv
    /\ KvInit
    /\ th = [t \in Threads |-> Idle(FALSE)]

Next ==
    \E t \in Threads :
        \/ KvCall(t)
        \/ AccessorGet(t)
        \/ AccessorInitBegin(t)
        \/ AccessorInitEnd(t)
        \/ KvClearStep(t)
        \/ KvStoreStep(t)
        \/ KvFetchStep(t)
        \/ Return(t)

Spec == Init /\ [][Next]_vars

(***************************************************************************)
(* SpecEval: one evaluation calls any filter through either hook.          *)
(***************************************************************************)
AllFilters == WithUpdate \cup NativeNew

EvalVals == {Null, VInt(7), VStr(S_path), VArr(<<VStr(S_a), VNum(S_1_0)>>)}

\* what an argument sub-expression may produce that is no usable value
BadStreams ==
    {<<>>, once(UpstreamErr), once(Ok(Null)), <<UpstreamErr, Ok(VStr(S_k1))>>,
     <<UpstreamErr, Ok(VInt(2))>>}

StringStreams(S) ==
    {once(Ok(VStr(x))) : x \in S} \cup {<<Ok(VStr(x)), UpstreamErr>> : x \in S}

IntStreams == {once(Ok(VInt(2))), once(Ok(VInt(0))), once(Ok(VInt(-1))),
               <<Ok(VInt(1)), Ok(VInt(2))>>}

ArgsFor(fn) ==
    CASE fn \in {"kv_store", "kv_fetch"} ->
             {<<a>> : a \in StringStreams(Keys) \cup BadStreams \cup {once(Ok(VInt(2)))}}
      [] fn = "log" ->
             {<<a>> : a \in StringStreams({S_info, S_Warn, S_bogus}) \cup BadStreams
                              \cup {once(Ok(VInt(2)))}}
      [] fn = "file_read" ->
             {<<a>> : a \in IntStreams \cup BadStreams \cup {once(Ok(VStr(S_k1)))}}
      [] OTHER -> {<<>>}

FileFilters == {"file_read", "file_meta", "file_size", "file_hash"}

EvalCall(t) ==
    \E fn \in AllFilters :
    \E hook \in {"run", "update"} :
    \E val \in (IF fn = "kv_store" THEN StoreVals ELSE EvalVals) :
    \E args \in ArgsFor(fn) :
    \E env \in (IF fn \in FileFilters /\ val[1] = "Str" THEN FsEntries ELSE {NoFile}) :
        Invoke(t, fn, hook, val, args, env)

\* a closure that runs in one step ends with its outcome
Finish(t, o) ==
    /\ th' = [th EXCEPT ![t] = [@ EXCEPT !.pc = IF o.out = Panic THEN "panicked" ELSE "done",
                                          !.out = o.out, !.eff = o.eff]]
    /\ UNCHANGED <<conv, kvVars, histVars>>

Log(t) ==
    /\ th[t].pc = "op" /\ th[t].fn = "log"
    /\ Finish(t, IF th[t].hook = "run" THEN log_run(th[t].args, th[t].val)
                 ELSE log_update(th[t].args, th[t].val))

Printout(t) ==
    /\ th[t].pc = "op" /\ th[t].fn = "printout"
    /\ Finish(t, IF th[t].hook = "run" THEN printout_run(th[t].args, th[t].val)
                 ELSE printout_update(th[t].args, th[t].val))

Printerr(t) ==
    /\ th[t].pc = "op" /\ th[t].fn = "printerr"
    /\ Finish(t, IF th[t].hook = "run" THEN printerr_run(th[t].args, th[t].val)
                 ELSE printerr_update(th[t].args, th[t].val))

Hash(t) ==
    /\ th[t].pc = "op" /\ th[t].fn = "hash"
    /\ Finish(t, hash_run(th[t].args, th[t].val))

FileMetaStep(t) ==
    /\ th[t].pc = "op" /\ th[t].fn = "file_meta"
    /\ Finish(t, file_meta_run(th[t].args, th[t].val, th[t].env))

FileSize(t) ==
    /\ th[t].pc = "op" /\ th[t].fn = "file_size"
    /\ Finish(t, file_size_run(th[t].args, th[t].val, th[t].env))

FileRead(t) ==
    /\ th[t].pc = "op" /\ th[t].fn = "file_read"
    /\ \E readFails \in {f \in BOOLEAN : (f => ReadMayFail(th[t].env))
                                         /\ (~f => ReadMayWork(th[t].env))} :
          Finish(t, file_read_run(th[t].args, th[t].val, th[t].env, readFails))

\* file_hash up to its read loop: the path check and File::open
FileHashOpen(t) ==
    /\ th[t].pc = "op" /\ th[t].fn = "file_hash"
    /\ IF th[t].val[1] # "Str"
       THEN Finish(t, Outcome(once(custom_err(<<"expected string but got {val:?}">>)), <<>>))
       ELSE IF File_open(th[t].env)[1] = "Err"
       THEN Finish(t, Outcome(once(Ok(Null)),
                              <<<<"File::open", StrCopy(th[t].val[2])>>,
                                ErrorLog("jaq: failed to open file", StrCopy(th[t].val[2]))>>))
       ELSE /\ th' = [th EXCEPT ![t] =
                         [@ EXCEPT !.pc = "hashing", !.cursor = 0, !.hasher = <<>>,
                                   !.eff = <<<<"File::open", StrCopy(th[t].val[2])>>>>]]
            /\ UNCHANGED <<conv, kvVars, histVars>>

\* what file.read(&mut buf) may return at offset pos: an error, 0 at the end
\* of the file, else between 1 and BUFFER_SIZE of the bytes that are left
ReadResults(env, pos) ==
    (IF ReadMayFail(env) THEN {<<"Err">>} ELSE {})
      \cup (IF ~ReadMayWork(env) THEN {}
            ELSE IF pos = Len(env.content) THEN {<<"Ok", 0>>}
            ELSE {<<"Ok", n>> : n \in 1..Min(BUFFER_SIZE, Len(env.content) - pos)})

\* hasher.finalize().to_hex().to_string()
Finalize(hasher) == VStr(Blake3Hex(hasher))

\* one iteration of while let Ok(bytes) = file.read(&mut buf); when the loop
\* ends, the digest of what was absorbed is the result
FileHashRead(t) ==
    /\ th[t].pc = "hashing"
    /\ \E r \in ReadResults(th[t].env, th[t].cursor) :
          /\ th' = [th EXCEPT ![t] =
                IF r[1] = "Err" \/ r[2] = 0
                THEN [@ EXCEPT !.pc = "done", !.cursor = 0, !.hasher = <<>>,
                               !.eff = Append(@, <<"File::read", r>>),
                               !.out = once(Ok(Finalize(th[t].hasher)))]
                ELSE [@ EXCEPT !.cursor = @ + r[2],
                               !.eff = Append(@, <<"File::read", r>>),
                               !.hasher = @ \o SubSeq(th[t].env.content,
                                                      th[t].cursor + 1,
                                                      th[t].cursor + r[2])]]
    /\ UNCHANGED <<conv, kvVars, histVars>>

NextEval ==
    \E t \in {"t1"} :
        \/ EvalCall(t)
        \/ AccessorGet(t)
        \/ AccessorInitBegin(t)
        \/ AccessorInitEnd(t)
        \/ KvClearStep(t)
        \/ KvStoreStep(t)
        \/ KvFetchStep(t)
        \/ Log(t)
        \/ Printout(t)
        \/ Printerr(t)
        \/ Hash(t)
        \/ FileMetaStep(t)
        \/ FileSize(t)
        \/ FileRead(t)
        \/ FileHashOpen(t)
        \/ FileHashRead(t)
        \/ Return(t)

SpecEval == Init /\ [][NextEval]_vars

(***************************************************************************)
(* Claims checked under Spec.                                              *)
(***************************************************************************)
\* thread t completes a kv_fetch of key k in this step
FetchCompletes(t, k) ==
    /\ th[t].pc = "op" /\ th[t].fn = "kv_fetch"
    /\ th'[t].pc = "done"
    /\ th[t].args = <<once(Ok(VStr(k)))>>

(***************************************************************************)
(* C1: a kv_fetch of key K that follows a completed kv_store of V under K  *)
(* (the latest one, no clear of K since) yields exactly one result, V,     *)
(* whichever thread stored and whichever thread fetches.                   *)
(***************************************************************************)
StoreThenFetch ==
    [][\A t \in Threads : \A k \in Keys :
          (FetchCompletes(t, k) /\ lastStored[k] # NoStore)
              => th'[t].out = once(Ok(lastStored[k]))]_vars

StoreThenFetchWitness ==
    /\ th["t1"].pc = "done" /\ th["t1"].fn = "kv_store"
    /\ th["t1"].val = VArr(<<VStr(S_a), VNum(S_1_0)>>)
    /\ th["t1"].args = <<once(Ok(VStr(S_k2)))>>
    /\ th["t2"].pc = "done" /\ th["t2"].fn = "kv_fetch"
    /\ th["t2"].args = <<once(Ok(VStr(S_k2)))>>
    /\ th["t2"].out = once(Ok(VArr(<<VStr(S_a), VNum(S_1_0)>>)))
    /\ written[S_k2] = {VInt(7), VArr(<<VStr(S_a), VNum(S_1_0)>>)}

(***************************************************************************)
(* C2: a kv_fetch that a thread runs right after its own kv_clear yields   *)
(* exactly one Null, for every key and whatever was stored before the      *)
(* clear began, provided no kv_store of that key completed in between.     *)
(***************************************************************************)
ClearThenFetch ==
    [][\A t \in Threads : \A k \in Keys :
          (FetchCompletes(t, k) /\ th[t].afterClear /\ k \notin dirty[t])
              => th'[t].out = once(Ok(Null))]_vars

ClearThenFetchWitness ==
    /\ th["t1"].pc = "done" /\ th["t1"].fn = "kv_fetch" /\ th["t1"].afterClear
    /\ th["t1"].args = <<once(Ok(VStr(S_k2)))>>
    /\ S_k2 \notin dirty["t1"]
    /\ written[S_k2] # {}
    /\ th["t1"].out = once(Ok(Null))

(***************************************************************************)
(* C5: under every interleaving, each entry of the map is the mirror of a  *)
(* value that a kv_store of that key inserted, and each kv_fetch of K      *)
(* yields Null or a value that a kv_store of K inserted; so a clear racing *)
(* with the only store leaves no entry or exactly that entry.              *)
(***************************************************************************)
EntriesWereStored ==
    \A i \in 1..Len(maps) : \A k \in Keys :
        maps[i][k] # Absent => \E v \in written[k] : maps[i][k] = SyncValFrom(v)

NeverCorrupted ==
    /\ []EntriesWereStored
    /\ [][\A t \in Threads : \A k \in Keys :
             FetchCompletes(t, k)
                 => th'[t].out \in {once(Ok(Null))} \cup {once(Ok(v)) : v \in written[k]}]_vars

\* a clear is between its two shards while the only store so far has landed
\* in the shard already cleared
NeverCorruptedWitness ==
    /\ th["t1"].pc = "op" /\ th["t1"].fn = "kv_clear" /\ th["t1"].cursor = 1
    /\ th["t2"].pc = "done" /\ th["t2"].fn = "kv_store"
    /\ written = [k \in Keys |-> IF ShardOf(k) = 0 THEN {VInt(7)} ELSE {}]
    /\ \E k \in Keys : ShardOf(k) = 0 /\ maps[KV_STORE][k] = SInt(7)

(***************************************************************************)
(* C6: no map exists before the first access; however the threads race,   *)
(* at most one map is ever created, the cell names it, and every handle    *)
(* a thread holds is a handle to it.                                       *)
(***************************************************************************)
OneStoreInstance ==
    /\ Len(maps) <= 1
    /\ KV_STORE = Len(maps)
    /\ \A t \in Threads : th[t].kv # 0 => th[t].kv = KV_STORE
    /\ \A t \in Threads : th[t].pc \in {"op", "done"} => th[t].kv # 0

\* one thread initialized the cell while the other waited; both now hold it
OneStoreInstanceWitness ==
    /\ th["t1"].pc = "op" /\ th["t2"].pc = "op"
    /\ th["t1"].kv = 1 /\ th["t2"].kv = 1
    /\ maps = <<EmptyDashMap>>

(***************************************************************************)
(* Claims checked under SpecEval.                                          *)
(***************************************************************************)
PassThroughFilters == {"log", "printout", "printerr", "kv_store", "kv_clear"}

(***************************************************************************)
(* C4: whenever log, printout, printerr, kv_store or kv_clear succeeds,    *)
(* its result stream is exactly one element, the input value unchanged,    *)
(* whatever the side effect and whatever the store holds.                  *)
(***************************************************************************)
PassThrough ==
    \A t \in Threads :
        (/\ th[t].pc = "done"
         /\ th[t].fn \in PassThroughFilters
         /\ \E i \in 1..Len(th[t].out) : IsOk(th[t].out[i]))
            => th[t].out = once(Ok(th[t].val))

\* a kv_store that overwrote another value has passed its input through
PassThroughWitness ==
    /\ th["t1"].pc = "done" /\ th["t1"].fn = "kv_store" /\ th["t1"].hook = "run"
    /\ th["t1"].val = VArr(<<VStr(S_a), VNum(S_1_0)>>)
    /\ th["t1"].args = <<<<Ok(VStr(S_k1)), UpstreamErr>>>>
    /\ th["t1"].out = once(Ok(VArr(<<VStr(S_a), VNum(S_1_0)>>)))
    /\ written[S_k1] = StoreVals
    /\ maps[KV_STORE][S_k1] = SArr(<<SStr(S_a), SNum(S_1_0)>>)

\* the run closure of a filter registered with an update closure
RunClosure(fn, args, val) ==
    CASE fn = "log" -> log_run(args, val)
      [] fn = "printout" -> printout_run(args, val)
      [] fn = "printerr" -> printerr_run(args, val)

(***************************************************************************)
(* C7, as amended: for log, printout and printerr, the filters registered  *)
(* with an update closure, a call through the update hook ends with the    *)
(* result stream and the side effects of the run hook on the same          *)
(* arguments and input.                                                    *)
(***************************************************************************)
UpdateAsRunWhereRegistered ==
    \A t \in Threads :
        (th[t].pc = "done" /\ th[t].hook = "update" /\ th[t].fn \in WithUpdate)
            => Outcome(th[t].out, th[t].eff) = RunClosure(th[t].fn, th[t].args, th[t].val)

UpdateAsRunWitness ==
    /\ th["t1"].pc = "done" /\ th["t1"].hook = "update" /\ th["t1"].fn = "log"
    /\ th["t1"].val = VInt(7)
    /\ th["t1"].args = <<once(Ok(VStr(S_Warn)))>>
    /\ th["t1"].out = once(Ok(VInt(7)))
    /\ th["t1"].eff = <<<<"tracing", S_warn, <<"jaq: ", VInt(7)>>>>>>

\* the map a kv_* closure would get from kv_store()
CurrentMap == IF KV_STORE = 0 THEN EmptyDashMap ELSE maps[KV_STORE]

\* the result streams the run hook may produce for the call c in this state
RunOutcomes(c) ==
    CASE c.fn \in WithUpdate -> {RunClosure(c.fn, c.args, c.val).out}
      [] c.fn = "kv_clear" -> {once(Ok(c.val))}
      [] c.fn = "kv_store" ->
            {IF IsOk(string_arg(c.args, 1, c.val)) THEN once(Ok(c.val))
             ELSE once(string_arg(c.args, 1, c.val))}
      [] c.fn = "kv_fetch" ->
            {IF IsOk(string_arg(c.args, 1, c.val))
             THEN once(Ok(FetchValue(DashGet(CurrentMap, string_arg(c.args, 1, c.val)[2]))))
             ELSE once(string_arg(c.args, 1, c.val))}
      [] c.fn = "hash" -> {hash_run(c.args, c.val).out}
      [] c.fn = "file_meta" -> {file_meta_run(c.args, c.val, c.env).out}
      [] c.fn = "file_size" -> {file_size_run(c.args, c.val, c.env).out}
      [] c.fn = "file_read" ->
            {file_read_run(c.args, c.val, c.env, f).out : f \in BOOLEAN}
      [] c.fn = "file_hash" ->
            IF c.val[1] # "Str"
            THEN {once(custom_err(<<"expected string but got {val:?}">>))}
            ELSE IF File_open(c.env)[1] = "Err" THEN {once(Ok(Null))}
            ELSE {once(Ok(Finalize(SubSeq(c.env.content, 1, n)))) :
                     n \in 0..Len(c.env.content)}

(***************************************************************************)
(* C7, as claimed: for every filter, a call through the update hook ends   *)
(* with a result stream the run hook produces on the same arguments,       *)
(* input, store and file.                                                  *)
(***************************************************************************)
UpdateAsRunEveryFilter ==
    \A t \in Threads :
        (th[t].pc = "done" /\ th[t].hook = "update")
            => th[t].out \in RunOutcomes(th[t])

\* the filters with a typed argument, and the tag each requires
TypedArgFilters == {"kv_store", "kv_fetch", "log", "file_read"}
WantedTag(fn) == IF fn = "file_read" THEN "Int" ELSE "Str"

\* the argument of call c produces nothing, an error, or a value of another tag
ArgFails(c) ==
    \/ c.args[1] = <<>>
    \/ ~IsOk(Head(c.args[1]))
    \/ Head(c.args[1])[2][1] # WantedTag(c.fn)

\* the error the claim names for that outcome
ArgError(c) ==
    IF c.args[1] = <<>> THEN custom_err(<<"value expected but none found">>)
    ELSE IF ~IsOk(Head(c.args[1])) THEN Head(c.args[1])
    ELSE IF c.fn = "file_read"
         THEN custom_err(<<"expected int but got ", Head(c.args[1])[2]>>)
         ELSE custom_err(<<"expected string but got ", Head(c.args[1])[2]>>)

\* thread t completes the run of a filter with a typed argument in this step
TypedRunCompletes(t) ==
    /\ th[t].pc # "done" /\ th'[t].pc = "done"
    /\ th'[t].fn \in TypedArgFilters
    /\ th'[t].hook = "run" \/ th'[t].fn \in WithUpdate

\* the call ends with that single error, nothing logged, read or inserted
EndsWithArgError(t) ==
    /\ th'[t].out = once(ArgError(th'[t]))
    /\ th'[t].eff = <<>>
    /\ maps' = maps

(***************************************************************************)
(* C8, as amended: when the typed argument of kv_store, kv_fetch, log or   *)
(* file_read (file_read given a string path as input) produces no value,   *)
(* an error or a value of the wrong tag - only its first result counts -   *)
(* the call ends with the single error "value expected but none found",    *)
(* the argument's own error, or "expected string/int but got ...", and     *)
(* nothing is inserted, logged or read.  (file_read checks its input       *)
(* before it evaluates the argument.)                                      *)
(***************************************************************************)
ArgCoercion ==
    [][\A t \in Threads :
          (/\ TypedRunCompletes(t)
           /\ ArgFails(th'[t])
           /\ th'[t].fn = "file_read" => th'[t].val[1] = "Str")
              => EndsWithArgError(t)]_vars

\* a kv_store whose argument fails first and would yield a key second
ArgCoercionWitness ==
    /\ th["t1"].pc = "done" /\ th["t1"].fn = "kv_store" /\ th["t1"].hook = "run"
    /\ th["t1"].args = <<<<UpstreamErr, Ok(VStr(S_k1))>>>>
    /\ th["t1"].out = once(UpstreamErr)
    /\ KV_STORE = 1 /\ maps[1][S_k1] = Absent /\ written[S_k1] = {}
    /\ written[S_k2] # {}

(***************************************************************************)
(* C8, as claimed: the same for every typed argument, whatever the input.  *)
(***************************************************************************)
ArgCoercionEveryInput ==
    [][\A t \in Threads :
          (TypedRunCompletes(t) /\ ArgFails(th'[t])) => EndsWithArgError(t)]_vars

\* the filesystem operations of the call that failed
FsFailures(c) ==
    {i \in 1..Len(c.eff) :
        \/ c.eff[i][1] = "metadata" /\ metadata(c.env)[1] = "Err"
        \/ c.eff[i][1] = "File::open" /\ File_open(c.env)[1] = "Err"
        \/ c.eff[i] = <<"read_to_string", "Err">>
        \/ c.eff[i] = <<"File::read", <<"Err">>>>}

(***************************************************************************)
(* C9: when the stat, the open or a read of file_meta, file_size,          *)
(* file_read or file_hash fails, the call ends with exactly one successful *)
(* Null, and the failed operation is the last one it tried.                *)
(***************************************************************************)
FsFailureYieldsNull ==
    \A t \in Threads :
        (/\ th[t].pc = "done" /\ th[t].hook = "run"
         /\ th[t].fn \in FileFilters
         /\ FsFailures(th[t]) # {})
            => /\ th[t].out = once(Ok(Null))
               /\ Cardinality(FsFailures(th[t])) = 1

(***************************************************************************)
(* C10: file_hash of a file that opens ends with the digest of the whole   *)
(* content of the file, however the reads split it.                        *)
(***************************************************************************)
HashOfWholeContent ==
    \A t \in Threads :
        (/\ th[t].pc = "done" /\ th[t].hook = "run" /\ th[t].fn = "file_hash"
         /\ th[t].val[1] = "Str"
         /\ File_open(th[t].env)[1] = "Ok")
            => th[t].out = once(Ok(VStr(Blake3Hex(th[t].env.content))))

(***************************************************************************)
(* Bounded input values of the conversions.                                *)
(***************************************************************************)
\* f64 values are named by an index: 1 is 1.5, 2 is -0.0, 3 is NaN
Scalars ==
    {Null, VBool(TRUE), VBool(FALSE), VInt(-1), VInt(7), VFloat(1), VFloat(3),
     VNum(S_1), VNum(S_1_0), VNum(S_1_00), VStr(<<>>), VStr(S_a), VStr(S_1_0)}

ObjKeys == {S_a, S_b, S_c}

\* entry sequences with pairwise distinct keys
EntriesOver(S, n) ==
    {m \in SeqsUpTo(ObjKeys \X S, n) :
        \A i, j \in 1..Len(m) : i # j => m[i][1] # m[j][1]}

\* a few composite values to nest
Inner ==
    {VArr(<<>>), VArr(<<VInt(7), VStr(S_a)>>), VArr(<<VStr(S_a), VInt(7)>>),
     VObj(<<>>), VObj(<<<<S_b, VNum(S_1_0)>>, <<S_a, Null>>>>), VNum(S_1_0)}

SmallScalars == {Null, VInt(7), VNum(S_1_0), VStr(S_a)}

ConvVals ==
    Scalars
      \cup {VArr(a) : a \in SeqsUpTo(SmallScalars, MaxLen)}
      \cup {VObj(m) : m \in EntriesOver(SmallScalars, MaxLen)}
      \cup {VArr(a) : a \in SeqsUpTo(Inner, MaxLen)}
      \cup {VObj(m) : m \in EntriesOver(Inner, MaxLen)}

(***************************************************************************)
(* SpecMirror: a value is mirrored, then converted back.                   *)
(***************************************************************************)
InitMirror ==
    /\ \E v \in ConvVals : conv = [pc |-> "value", v |-> v, m |-> SNull, back |-> Null]
    /\ KV_STORE = 0
    /\ maps = <<>>
    /\ lastStored = [k \in Keys |-> NoStore]
    /\ written = [k \in Keys |-> {}]
    /\ dirty = [t \in Threads |-> {}]
    /\ th = [t \in Threads |-> Idle(FALSE)]

ToMirror ==
    /\ conv.pc = "value"
    /\ conv' = [conv EXCEPT !.pc = "mirror", !.m = SyncValFrom(conv.v)]
    /\ UNCHANGED <<kvVars, th, histVars>>

ToValue ==
    /\ conv.pc = "mirror"
    /\ conv' = [conv EXCEPT !.pc = "back", !.back = ValFrom(conv.m)]
    /\ UNCHANGED <<kvVars, th, histVars>>

NextMirror == ToMirror \/ ToValue

SpecMirror == InitMirror /\ [][NextMirror]_vars

(***************************************************************************)
(* C3: converting a value to its mirror and back yields the same value:    *)
(* same tags, same keys, same scalars, same array and entry order, same    *)
(* bytes of decimal text; both conversions are defined on every value.     *)
(***************************************************************************)
RoundTrip ==
    conv.pc = "back" => conv.back = conv.v

RoundTripWitness ==
    /\ conv.pc = "back"
    /\ conv.v = VObj(<<<<S_b, VArr(<<VStr(S_a), VInt(7)>>)>>, <<S_a, VNum(S_1_0)>>>>)
    /\ conv.m = SObj(<<<<S_b, SArr(<<SStr(S_a), SInt(7)>>)>>, <<S_a, SNum(S_1_0)>>>>)

====
